---- MODULE Spec2Model ----
(***************************************************************************)
(* Model of the kuanqk/my_streamlit_app dashboards:                        *)
(*   src/professional_trading_terminal.py  (get_real_data,                 *)
(*        create_professional_chart, the page script)                      *)
(*   src/finance_charts_real_data.py       (get_real_data,                 *)
(*        create_financial_chart, the page script)                         *)
(*                                                                         *)
(* Floating point values are modelled exactly: a value is a triple         *)
(* <<kind, n, d>>, kind "num" standing for the rational n/d (d > 0), kind  *)
(* "nan" for NaN and kind "inf" for +/-infinity (sign in n).  Rounding is  *)
(* modelled only where a value is printed through a format.  Python index  *)
(* i is TLA+ index i + 1.                                                  *)
(*                                                                         *)
(* Three kinds of behaviour are explored: Spec runs each page once from a  *)
(* cold cache, for every position of the chart widgets and every answer of *)
(* the provider, and calls the chart builders directly; Session,           *)
(* FairSession and Tickers follow a browser session over several runs,     *)
(* with the cache, the buttons, the auto-refresh and the clock.            *)
(***************************************************************************)
EXTENDS Integers, Sequences, FiniteSets, TLC

(***************************************************************************)
(* Bounds of the exploration.                                              *)
(***************************************************************************)
MaxLen == 3          \* longest series handed to a chart builder
MaxPeriod == 4       \* largest moving-average period handed to the builder
MaxPageLen == 2      \* longest series the provider returns in a page run
MaxTickers == 2      \* presets of the terminal the user may tick

(***************************************************************************)
(* float64 values and the arithmetic the scripts apply to them.            *)
(***************************************************************************)
NaN == <<"nan", 0, 1>>
PosInf == <<"inf", 1, 1>>
NegInf == <<"inf", -1, 1>>
F(n) == <<"num", n, 1>>

IsNum(a) == a[1] = "num"
notna(a) == a[1] # "nan"

\* a - b ; the operands are prices, never infinite
fsub(a, b) ==
    IF IsNum(a) /\ IsNum(b)
    THEN <<"num", a[2] * b[3] - b[2] * a[3], a[3] * b[3]>>
    ELSE NaN

\* a + b ; the operands are prices, never infinite
fadd(a, b) ==
    IF IsNum(a) /\ IsNum(b)
    THEN <<"num", a[2] * b[3] + b[2] * a[3], a[3] * b[3]>>
    ELSE NaN

\* a / b on numpy.float64: division by zero yields inf, -inf or nan
fdiv(a, b) ==
    IF ~(IsNum(a) /\ IsNum(b)) THEN NaN
    ELSE IF b[2] = 0
         THEN (IF a[2] > 0 THEN PosInf ELSE IF a[2] < 0 THEN NegInf ELSE NaN)
         ELSE IF b[2] > 0
              THEN <<"num", a[2] * b[3], a[3] * b[2]>>
              ELSE <<"num", (0 - a[2]) * b[3], a[3] * (0 - b[2])>>

\* a * k for an integer k > 0
fscale(a, k) ==
    IF IsNum(a) THEN <<"num", a[2] * k, a[3]>> ELSE a

\* a < 0 ; every comparison with NaN is False
fneg(a) == a[1] # "nan" /\ a[2] < 0

\* a >= b ; every comparison with NaN is False
fge(a, b) == IsNum(a) /\ IsNum(b) /\ a[2] * b[3] >= b[2] * a[3]

\* numerically the same value (fractions are not normalised)
SameValue(a, b) ==
    IF IsNum(a) /\ IsNum(b) THEN a[2] * b[3] = b[2] * a[3] ELSE a = b

(***************************************************************************)
(* Tables (pandas DataFrame): a function from column name to a sequence    *)
(* of values, all of one length; None is the missing table.                *)
(***************************************************************************)
None == [kind |-> "None"]
DataFrame(col) == [kind |-> "df", col |-> col]

columns(df) == DOMAIN df.col
len(df) == Len(df.col["date"])
is_none_or_empty(df) == df = None \/ len(df) = 0

set_column(df, name, vals) ==
    DataFrame([c \in columns(df) \cup {name} |->
                 IF c = name THEN vals ELSE df.col[c]])

(***************************************************************************)
(* Series.rolling(window).mean(): min_periods defaults to the window, so a *)
(* position has a value only when the window holds `window` observations,  *)
(* none of them NaN.  A window of 0 yields NaN everywhere; a negative      *)
(* window is rejected by pandas with ValueError (see rolling_raises).      *)
(***************************************************************************)
RECURSIVE WindowSum(_, _, _)
WindowSum(xs, lo, hi) ==
    IF lo > hi THEN F(0) ELSE fadd(WindowSum(xs, lo, hi - 1), xs[hi])

rolling_mean(xs, window) ==
    [i \in 1..Len(xs) |->
        IF /\ window >= 1
           /\ i >= window
           /\ \A j \in (i - window + 1)..i : notna(xs[j])
        THEN LET s == WindowSum(xs, i - window + 1, i)
             IN  <<"num", s[2], s[3] * window>>
        ELSE NaN]

rolling_raises(window) == window < 0

(***************************************************************************)
(* Figures.  A trace keeps its kind, its name, the subplot row it was      *)
(* added to (0 when the figure has no subplots), its y values (closes) and *)
(* for OHLC traces the open/high/low values, for bars the marker colours.  *)
(***************************************************************************)
GREEN == "#26A69A"
RED == "#E53935"
GREY == "#888888"

NoFigure == [kind |-> "nofig"]

PlaceholderFigure(h) ==
    [kind |-> "placeholder", text |-> "data unavailable", height |-> h]

Trace(type, name, row, y, extra) ==
    [type |-> type, name |-> name, row |-> row, y |-> y, extra |-> extra]

max(a, b) == IF a >= b THEN a ELSE b

\* program constants
MA_DEFAULT_1 == 20
MA_DEFAULT_2 == 50
MA_MIN == 5
Unset == -1

CANDLESTICK == "Candlestick"
LINE == "Line Chart"
BAR == "Bar Chart"
ChartTypes == {CANDLESTICK, LINE, BAR}

MA_name(p) == "MA" \o ToString(p)

\* lines 51-61 / 46-57: the guard of both chart builders
Returned(df, fig, colors) ==
    [raised |-> "", df |-> df, fig |-> fig, colors |-> colors]

Raised(exc, df) ==
    [raised |-> exc, df |-> df, fig |-> NoFigure, colors |-> <<>>]

\* the price annotation both builders add (price_text and its background)
PriceLabel(current_price, change_pct, change_abs) ==
    [current_price |-> current_price, change_pct |-> change_pct,
     change_abs |-> change_abs,
     bgcolor |-> IF fneg(change_pct) THEN RED ELSE GREEN]

\* the bar chart drawn as a candlestick
price_trace_one_kind(df, chart_type, row, color) ==
    LET has_ohlc == {"Open", "High", "Low", "price"} \subseteq columns(df)
    IN  IF chart_type \in {CANDLESTICK, BAR} /\ has_ohlc
        THEN Trace("Candlestick", "ticker", row, df.col["price"],
                   <<df.col["Open"], df.col["High"], df.col["Low"]>>)
        ELSE Trace("Scatter", "ticker", row, df.col["price"], <<color>>)

\* lines 82-130 of the terminal: the price trace
price_trace(df, chart_type, row, color) ==
    LET has_ohlc == {"Open", "High", "Low", "price"} \subseteq columns(df)
    IN  IF chart_type = CANDLESTICK /\ has_ohlc
        THEN Trace("Candlestick", "ticker", row, df.col["price"],
                   <<df.col["Open"], df.col["High"], df.col["Low"]>>)
        ELSE IF chart_type = BAR /\ has_ohlc
        THEN Trace("Ohlc", "ticker", row, df.col["price"],
                   <<df.col["Open"], df.col["High"], df.col["Low"]>>)
        ELSE Trace("Scatter", "ticker", row, df.col["price"], <<color>>)

\* rolling(window, min_periods=1): the mean of what the window holds so far
rolling_mean_partial(xs, window) ==
    [i \in 1..Len(xs) |->
        LET lo == max(1, i - window + 1)
        IN  IF \A j \in lo..i : notna(xs[j])
            THEN LET s == WindowSum(xs, lo, i)
                 IN  <<"num", s[2], s[3] * (i - lo + 1)>>
            ELSE NaN]

\* the overlays drawn whenever show_ma is on, over partial windows
moving_averages_partial(df, show_ma, ma_period_1, ma_period_2, row) ==
    IF show_ma /\ ma_period_1 >= 1 /\ ma_period_2 >= 1
    THEN LET df1 == set_column(df, MA_name(ma_period_1),
                      rolling_mean_partial(df.col["price"], ma_period_1))
             df2 == set_column(df1, MA_name(ma_period_2),
                      rolling_mean_partial(df.col["price"], ma_period_2))
         IN  [raised |-> "", df |-> df2,
              traces |-> <<Trace("Scatter", MA_name(ma_period_1), row,
                                 df2.col[MA_name(ma_period_1)], <<>>),
                           Trace("Scatter", MA_name(ma_period_2), row,
                                 df2.col[MA_name(ma_period_2)], <<>>)>>]
    ELSE [raised |-> "", df |-> df, traces |-> <<>>]

\* lines 139-169 of the terminal: the moving averages.  The result is the
\* exception raised (if any), the table as the statements left it, and the
\* traces added to the figure.
moving_averages(df, show_ma, ma_period_1, ma_period_2, row) ==
    IF show_ma /\ len(df) > max(ma_period_1, ma_period_2)
    THEN IF rolling_raises(ma_period_1)
         THEN [raised |-> "ValueError", df |-> df, traces |-> <<>>]
         ELSE LET df1 == set_column(df, MA_name(ma_period_1),
                                    rolling_mean(df.col["price"], ma_period_1))
                  ma1_trace == Trace("Scatter", MA_name(ma_period_1), row,
                                     df1.col[MA_name(ma_period_1)], <<>>)
              IN  IF rolling_raises(ma_period_2)
                  THEN [raised |-> "ValueError", df |-> df1, traces |-> <<>>]
                  ELSE LET df2 == set_column(df1, MA_name(ma_period_2),
                                     rolling_mean(df1.col["price"], ma_period_2))
                           ma2_trace == Trace("Scatter", MA_name(ma_period_2), row,
                                     df2.col[MA_name(ma_period_2)], <<>>)
                       IN  [raised |-> "", df |-> df2,
                            traces |-> <<ma1_trace, ma2_trace>>]
    ELSE [raised |-> "", df |-> df, traces |-> <<>>]

\* close > open in place of close >= open
volume_color_strict(open, price) ==
    IF notna(open) /\ notna(price)
    THEN (IF fge(price, open) /\ ~fge(open, price) THEN GREEN ELSE RED)
    ELSE GREY

\* lines 174-182 of the terminal: the colour of one volume bar
volume_color(open, price) ==
    IF notna(open) /\ notna(price)
    THEN (IF fge(price, open) THEN GREEN ELSE RED)
    ELSE GREY

\* lines 172-195 of the terminal: colors_volume and the volume bars
colors_volume(df) ==
    [i \in 1..len(df) |-> volume_color(df.col["Open"][i], df.col["price"][i])]

volume_traces(df, show_volume, volume_row) ==
    LET has_ohlc == {"Open", "High", "Low", "price"} \subseteq columns(df)
    IN  IF show_volume /\ "Volume" \in columns(df) /\ has_ohlc /\ volume_row # 0
        THEN <<Trace("Bar", "Volume", volume_row, df.col["Volume"],
                     colors_volume(df))>>
        ELSE <<>>

\* lines 46-307 of the terminal
create_professional_chart(df, current_price, change_pct, change_abs, chart_type, show_volume, show_ma, ma_period_1, ma_period_2) ==
    IF is_none_or_empty(df)
    THEN Returned(df, PlaceholderFigure(350), <<>>)
    ELSE LET subplots == show_volume /\ "Volume" \in columns(df)
             volume_row == IF subplots THEN 2 ELSE 0
             price_row == IF subplots THEN 1 ELSE 0
             color == IF fneg(change_pct) THEN RED ELSE GREEN
             trace == price_trace(df, chart_type, price_row, color)
             ma == moving_averages(df, show_ma, ma_period_1, ma_period_2,
                                   price_row)
             vol == volume_traces(ma.df, show_volume, volume_row)
         IN  IF ma.raised # ""
             THEN Raised(ma.raised, ma.df)
             ELSE Returned(ma.df,
                    [kind |-> "chart",
                     rows |-> IF subplots THEN 2 ELSE 1,
                     traces |-> <<trace>> \o ma.traces \o vol,
                     label |-> PriceLabel(current_price, change_pct, change_abs),
                     height |-> 400],
                    IF vol = <<>> THEN <<>> ELSE vol[1].extra)

\* lines 83-88 of the real-data page: the list `colors`
line_colors(price) ==
    [k \in 1..(Len(price) - 1) |->
        IF fge(price[k + 1], price[k]) THEN GREEN ELSE RED]

\* lines 43-164 of the real-data page
create_financial_chart(df, current_price, change_pct, change_abs) ==
    IF is_none_or_empty(df)
    THEN Returned(df, PlaceholderFigure(250), <<>>)
    ELSE LET ohlc == {"Open", "High", "Low"} \subseteq columns(df)
             trace == IF ohlc
                      THEN Trace("Candlestick", "ticker", 0, df.col["price"],
                             <<df.col["Open"], df.col["High"], df.col["Low"]>>)
                      ELSE Trace("Scatter", "ticker", 0, df.col["price"],
                             <<IF fneg(change_pct) THEN RED ELSE GREEN>>)
         IN  Returned(df,
                [kind |-> "chart", rows |-> 1, traces |-> <<trace>>,
                 label |-> PriceLabel(current_price, change_pct, change_abs),
                 height |-> 280],
                IF ohlc THEN <<>> ELSE line_colors(df.col["price"]))

(***************************************************************************)
(* get_real_data (both pages).  The provider answers with an exception or  *)
(* with a raw table whose columns are Datetime, Open, High, Low, Close and *)
(* Volume; `keep` is the column list of the return statement.  The         *)
(* st.cache_data wrapper is not part of this operator (see                 *)
(* cached_get_real_data).                                                  *)
(***************************************************************************)
ProviderError == [kind |-> "exception"]
NoResponse == [kind |-> "none"]

rename(c) ==
    IF c \in {"Datetime", "Date"} THEN "date"
    ELSE IF c = "Close" THEN "price" ELSE c

\* df.empty of the provider's table
raw_empty(resp) == Len(resp.col["Close"]) = 0

\* the check for an empty result forgotten
get_real_data_keeps_empty(resp, keep) ==
    IF resp = ProviderError THEN None
    ELSE DataFrame([c \in keep |->
            resp.col[CHOOSE r \in DOMAIN resp.col : rename(r) = c]])

get_real_data(resp, keep) ==
    IF resp = ProviderError THEN None
    ELSE IF raw_empty(resp) THEN None
    ELSE DataFrame([c \in keep |->
            resp.col[CHOOSE r \in DOMAIN resp.col : rename(r) = c]])

REAL_DATA_COLUMNS == {"date", "Open", "High", "Low", "price"}
TERMINAL_COLUMNS == {"date", "Open", "High", "Low", "price", "Volume"}

\* the change taken relative to the current price
summarize_vs_current(df) ==
    LET current == df.col["price"][len(df)]
        prev == df.col["price"][1]
        abs == fsub(current, prev)
    IN  [current_price |-> current, prev_price |-> prev, change_abs |-> abs,
         change_pct |-> fscale(fdiv(abs, current), 100)]

\* lines 466-469 / 221-224: the numbers the pages pass to the chart builder
summarize(df) ==
    LET current == df.col["price"][len(df)]
        prev == df.col["price"][1]
        abs == fsub(current, prev)
    IN  [current_price |-> current, prev_price |-> prev, change_abs |-> abs,
         change_pct |-> fscale(fdiv(abs, prev), 100)]

NoSummary ==
    [current_price |-> F(0), prev_price |-> F(0), change_abs |-> F(0),
     change_pct |-> F(0)]

(***************************************************************************)
(* The statistics under the chart (terminal).  Series.max / min / mean /   *)
(* sum skip missing values (skipna): max, min and mean of a series without *)
(* a value are NaN, its sum is 0.  A metric is printed through a format    *)
(* with a fixed number of decimals; the printed value is kept as a number  *)
(* of 10^-digits units, "nan" prints as NaN.                               *)
(***************************************************************************)
present(xs) == {i \in 1..Len(xs) : notna(xs[i])}

series_max(xs) ==
    IF present(xs) = {} THEN NaN
    ELSE xs[CHOOSE i \in present(xs) : \A j \in present(xs) : fge(xs[i], xs[j])]

series_min(xs) ==
    IF present(xs) = {} THEN NaN
    ELSE xs[CHOOSE i \in present(xs) : \A j \in present(xs) : fge(xs[j], xs[i])]

RECURSIVE series_sum(_)
series_sum(xs) ==
    IF xs = <<>> THEN F(0)
    ELSE IF notna(Head(xs)) THEN fadd(Head(xs), series_sum(Tail(xs)))
    ELSE series_sum(Tail(xs))

series_mean(xs) ==
    IF present(xs) = {} THEN NaN
    ELSE LET s == series_sum(xs)
         IN  <<"num", s[2], s[3] * Cardinality(present(xs))>>

RECURSIVE gcd(_, _)
gcd(a, b) == IF b = 0 THEN a ELSE gcd(b, a % b)

BILLION == 1000000000

\* x / 1e9 for a sum of volumes x >= 0 (the fraction is reduced)
billions(x) ==
    IF IsNum(x)
    THEN LET g == gcd(BILLION, x[2])
         IN  <<"num", x[2] \div g, x[3] * (BILLION \div g)>>
    ELSE x

pow10(digits) == IF digits = 1 THEN 10 ELSE 100

\* f"{x:.<digits>f}" for x >= 0: the nearest multiple of 10^-digits, a tie
\* (exactly representable in the cases explored) going to the even digit
format(x, digits) ==
    IF IsNum(x)
    THEN LET n == x[2] * pow10(digits)
             q == n \div x[3]
             r == n % x[3]
         IN  <<"num", IF 2 * r > x[3] \/ (2 * r = x[3] /\ q % 2 = 1)
                      THEN q + 1 ELSE q,
               pow10(digits)>>
    ELSE x

\* a metric printed as "N/A"; a metric the view does not have
NA == <<"n/a", 0, 1>>
Hidden == <<"hidden", 0, 1>>
NoStats == [high |-> Hidden, low |-> Hidden, avg |-> Hidden, volume |-> Hidden]

\* lines 491-503 (single view) and 542-548 (multi view) of the terminal
statistics(df, single_view) ==
    IF single_view
    THEN [high |-> format(series_max(df.col["High"]), 2),
          low |-> format(series_min(df.col["Low"]), 2),
          avg |-> format(series_mean(df.col["price"]), 2),
          volume |-> IF "Volume" \in columns(df)
                     THEN format(billions(series_sum(df.col["Volume"])), 2)
                     ELSE NA]
    ELSE [high |-> format(series_max(df.col["High"]), 1),
          low |-> format(series_min(df.col["Low"]), 1),
          avg |-> format(series_mean(df.col["price"]), 1),
          volume |-> Hidden]

(***************************************************************************)
(* The inputs explored.                                                    *)
(***************************************************************************)
SeqsUpTo(S, n) == UNION {[1..k -> S] : k \in 0..n}

VOLUME == 20000000

Bar(open, price) ==
    [Open |-> open, High |-> F(55), Low |-> F(0), price |-> price,
     Volume |-> F(VOLUME)]

\* a bar of which the provider has only the open and the close
BareBar ==
    [Open |-> F(50), High |-> NaN, Low |-> NaN, price |-> F(50), Volume |-> NaN]

\* bars for the direction cases: close = open, close > open, close < open,
\* open missing, close missing
DirBars ==
    {Bar(F(50), F(50)), Bar(F(50), F(55)), Bar(F(55), F(50)),
     Bar(NaN, F(50)), Bar(F(50), NaN)}

\* bars for the moving averages
MABars == {Bar(F(50), F(50)), Bar(F(50), F(55)), Bar(F(50), NaN)}

ColumnSets ==
    {TERMINAL_COLUMNS, TERMINAL_COLUMNS \ {"Volume"},
     TERMINAL_COLUMNS \ {"Open"}, TERMINAL_COLUMNS \ {"High"},
     TERMINAL_COLUMNS \ {"Low"}, {"date", "price"}}

MkTable(cols, bars) ==
    DataFrame([c \in cols |->
        [i \in 1..Len(bars) |-> IF c = "date" THEN F(i) ELSE bars[i][c]]])

Periods == (0 - 1)..MaxPeriod

\* the bars a series of the first family (default periods) or of the second
\* (small periods) grows by
InputBars(period) == IF period = MA_DEFAULT_1 THEN DirBars ELSE MABars

\* bars the provider returns in a page run
PageBars == {Bar(F(50), F(0)), Bar(F(50), F(55)), Bar(F(50), NaN), BareBar}

RawTable(bars) ==
    DataFrame([c \in {"Datetime", "Open", "High", "Low", "Close", "Volume"} |->
        [i \in 1..Len(bars) |->
            IF c = "Datetime" THEN F(i)
            ELSE IF c = "Close" THEN bars[i]["price"] ELSE bars[i][c]]])

ProviderResponses ==
    {ProviderError} \cup {RawTable(b) : b \in SeqsUpTo(PageBars, MaxPageLen)}

\* the tickers of the real-data page (tickers_config) and the presets of the
\* terminal that the model lets the user tick
TICKERS_CONFIG == <<"SP500", "BTC", "GOLD">>
PRESET_TICKERS == <<"^GSPC", "BTC-USD", "GC=F">>

RECURSIVE ticked(_, _)
ticked(presets, S) ==
    IF presets = <<>> THEN <<>>
    ELSE IF Head(presets) \in S
         THEN <<Head(presets)>> \o ticked(Tail(presets), S)
         ELSE ticked(Tail(presets), S)

PresetUniverse == {PRESET_TICKERS[i] : i \in 1..MaxTickers}

\* the presets whose checkbox is ticked by default
DefaultPresets == {PRESET_TICKERS[i] : i \in 1..Len(PRESET_TICKERS)}
PresetChoices == SUBSET PresetUniverse

(***************************************************************************)
(* st.cache_data(ttl=300) around get_real_data.  An entry is the result    *)
(* stored under the call's arguments, with its age in seconds and whether  *)
(* the call printed the provider's error; an entry whose age reaches the   *)
(* ttl is expired, which is modelled by dropping it when time advances.    *)
(***************************************************************************)
TTL == 300
REFRESH_MIN == 30
REFRESH_MAX == 300

\* the step of the clock, and the slider positions explored
TimeStep == REFRESH_MAX \div 2
RefreshRates == {TimeStep, REFRESH_MAX}

\* the period selectbox at its default, and interval_map
DefaultPeriod(p) == IF p = "terminal" THEN "1mo" ELSE "7d"
interval_map(p, period) ==
    IF period = "1d" THEN "5m"
    ELSE IF period = "1mo" THEN (IF p = "terminal" THEN "1h" ELSE "1d")
    ELSE IF period = "7d" THEN "1h"
    ELSE "1d"

Key(symbol, period, interval) == <<symbol, period, interval>>

\* no entry is ever found
cache_lookup_never(c, key) == {e \in c : FALSE}

cache_lookup(c, key) == {e \in c : e.key = key}

cache_store(c, key, value, error) ==
    {e \in c : e.key # key}
        \cup {[key |-> key, value |-> value, error |-> error, age |-> 0]}

cache_advance(c, dt) ==
    {[e EXCEPT !.age = e.age + dt] : e \in {x \in c : x.age + dt < TTL}}

\* a call of the cached get_real_data: the result, whether st.error was
\* printed (or replayed), the key the result is stored under and the key
\* the provider was asked for (none on a hit); resp is the provider's
\* answer, used on a miss only
cached_get_real_data(c, key, resp, keep) ==
    IF cache_lookup(c, key) # {}
    THEN LET e == CHOOSE e \in cache_lookup(c, key) : TRUE
         IN  [value |-> e.value, error |-> e.error, stored |-> {},
              contacted |-> {}]
    ELSE [value |-> get_real_data(resp, keep),
          error |-> resp = ProviderError,
          stored |-> {key},
          contacted |-> {key}]

\* the answers of the provider in a session about the list of tickers
TickersResponses == {ProviderError, RawTable(<<Bar(F(50), F(55))>>)}

\* get_real_data is not called
NoCall == [value |-> None, error |-> FALSE, stored |-> {}, contacted |-> {}]

\* a button that stays True in the runs the script starts itself
button_sticky(t, name) == t \in {name, "rerun", "auto"}

\* st.button: True only in the run that a click on it started
button(t, name) == t = name

\* str.upper() on the ticker texts explored
upper(t) == IF t = "msft" THEN "MSFT" ELSE t

CustomTexts == {"", "msft"}

\* the answers of the provider in a session of several runs
SessionResponses ==
    {ProviderError, RawTable(<<>>), RawTable(<<Bar(F(50), F(50))>>),
     RawTable(<<Bar(F(50), F(55))>>)}

VARIABLES
    page,               \* "real_data", "terminal", or "call" (a builder called directly)
    pc,                 \* position in the script
    view_mode,          \* "multi" | "single"
    selected_presets,   \* the list of tickers to display
    selected_single,    \* index chosen in single view (Unset: name not bound)
    idx,                \* loop index of the ticker loop (0-based)
    response,           \* what the provider answered to the last fetch
    data,               \* the table get_real_data returned / the builder received
    current_price, prev_price, change_abs, change_pct,
    fig,                \* the figure the builder returned
    raised,             \* exception that ended the call ("" when none)
    colors,             \* the direction colours the builder computed
    called,             \* which builder ran last
    rendered,           \* the elements the run has put on the page, in order
    stats,              \* the metrics printed under the last chart
    chart_type, show_volume, show_ma, ma_period_1, ma_period_2,
    ticks,              \* the preset checkboxes that are ticked
    auto_refresh,       \* the auto-refresh checkbox
    refresh_rate,       \* the slider (Unset: name not bound)
    custom_ticker,      \* the text of the custom ticker input
    trigger,            \* what started the run: "user" (first load, widget
                        \* change), "add", "refresh" (that button), "rerun"
                        \* (st.rerun() of the refresh button), "auto"
                        \* (st.rerun() of the auto-refresh)
    cache,              \* the entries of st.cache_data
    contacted,          \* the keys the provider was asked for in this run
    slept,              \* seconds of time.sleep(refresh_rate) gone by
    cols,               \* number of columns created for the charts
    col_idx,            \* column of the current ticker
    provider            \* the answers the provider may give in this behaviour

vars == <<page, pc, view_mode, selected_presets, selected_single, idx, response, data,
          current_price, prev_price, change_abs, change_pct, fig, raised,
          colors, called, rendered, stats, chart_type, show_volume,
          show_ma, ma_period_1, ma_period_2, ticks, auto_refresh,
          refresh_rate, custom_ticker, trigger, cache, contacted, slept,
          cols, col_idx, provider>>

sidebar == <<view_mode, selected_presets, selected_single, chart_type,
             show_volume, show_ma, ma_period_1, ma_period_2>>
numbers == <<current_price, prev_price, change_abs, change_pct>>
widgets == <<ticks, auto_refresh, refresh_rate, custom_ticker>>
settings == <<view_mode, chart_type, show_volume, show_ma, ma_period_1, ma_period_2>>
session == <<trigger, cache, contacted, slept, provider>>
layout == <<cols, col_idx>>

SetNumbers(s) ==
    /\ current_price' = s.current_price
    /\ prev_price' = s.prev_price
    /\ change_abs' = s.change_abs
    /\ change_pct' = s.change_pct

\* a fresh session: widgets not named here at their defaults, nothing cached
FreshSession ==
    /\ auto_refresh = FALSE /\ refresh_rate = Unset /\ custom_ticker = ""
    /\ trigger = "user" /\ cache = {} /\ contacted = {} /\ slept = 0
    /\ cols = 0 /\ col_idx = 0

(***************************************************************************)
(* A chart builder called directly.  Two families of arguments: with the   *)
(* default periods every column set, chart type and direction case of the  *)
(* bars; with small periods (negative, zero, up to MaxPeriod) the series   *)
(* of closes, present or missing, with show_ma on and off.                 *)
(***************************************************************************)
InitChart ==
    /\ page = "call" /\ pc = "args"
    /\ view_mode = "multi" /\ selected_presets = <<>> /\ selected_single = Unset
    /\ idx = 0 /\ rendered = <<>> /\ response = NoResponse /\ stats = NoStats
    /\ fig = NoFigure /\ raised = "" /\ colors = <<>> /\ called = ""
    /\ ticks = {} /\ provider = {} /\ FreshSession
    /\ \/ /\ chart_type \in ChartTypes
          /\ show_volume \in BOOLEAN
          /\ show_ma = FALSE
          /\ ma_period_1 = MA_DEFAULT_1 /\ ma_period_2 = MA_DEFAULT_2
          /\ data \in {None} \cup
                {MkTable(c, b) : c \in ColumnSets, b \in SeqsUpTo(DirBars, MaxLen)}
       \/ /\ chart_type = CANDLESTICK
          /\ show_volume \in BOOLEAN
          /\ show_ma \in BOOLEAN
          /\ ma_period_1 \in Periods /\ ma_period_2 \in Periods
          /\ data \in {MkTable(TERMINAL_COLUMNS, b) : b \in SeqsUpTo(MABars, MaxLen)}
    /\ LET s == IF is_none_or_empty(data) THEN NoSummary ELSE summarize(data)
       IN  /\ current_price = s.current_price
           /\ prev_price = s.prev_price
           /\ change_abs = s.change_abs
           /\ change_pct = s.change_pct

Return(r, f) ==
    /\ data' = r.df
    /\ raised' = r.raised
    /\ fig' = IF r.raised = "" THEN r.fig ELSE fig
    /\ colors' = r.colors
    /\ called' = f

CallProfessional ==
    /\ page = "call" /\ pc = "args"
    /\ Return(create_professional_chart(data, current_price, change_pct,
                 change_abs, chart_type, show_volume, show_ma,
                 ma_period_1, ma_period_2), "professional")
    /\ pc' = IF raised' = "" THEN "returned" ELSE "raised"
    /\ UNCHANGED <<page, idx, response, rendered, stats, sidebar, numbers,
                   widgets, session, layout>>

CallFinancial ==
    /\ page = "call" /\ pc = "args"
    /\ Return(create_financial_chart(data, current_price, change_pct,
                 change_abs), "financial")
    /\ pc' = "returned"
    /\ UNCHANGED <<page, idx, response, rendered, stats, sidebar, numbers,
                   widgets, session, layout>>

\* the series grows by one bar and a fresh table of it is handed to the
\* next call, with the same settings
NewBar ==
    /\ page = "call" /\ pc = "returned"
    /\ data # None /\ len(data) < MaxLen
    /\ \E b \in InputBars(ma_period_1) :
         LET base == columns(data) \cap TERMINAL_COLUMNS
             df == DataFrame([c \in base |->
                      Append(data.col[c],
                             IF c = "date" THEN F(len(data) + 1) ELSE b[c])])
         IN  /\ data' = df
             /\ SetNumbers(summarize(df))
    /\ pc' = "args"
    /\ UNCHANGED <<page, idx, response, rendered, stats, sidebar, fig, raised, colors,
                   called, widgets, session, layout>>


(***************************************************************************)
(* A page script, run top to bottom.  The values of the widgets are state  *)
(* of the browser session: a run reads them, a user action changes one of  *)
(* them and starts the next run.  The names of the script are fresh in     *)
(* every run.                                                              *)
(***************************************************************************)
WidgetPeriods == {MA_MIN, MA_DEFAULT_2}

\* the names of the script before its first statement
FreshRun ==
    /\ pc = "sidebar"
    /\ selected_presets = <<>> /\ selected_single = Unset
    /\ idx = 0 /\ rendered = <<>> /\ data = None /\ response = NoResponse
    /\ stats = NoStats
    /\ fig = NoFigure /\ raised = "" /\ colors = <<>> /\ called = ""
    /\ current_price = F(0) /\ prev_price = F(0)
    /\ change_abs = F(0) /\ change_pct = F(0)

\* one run from a cold cache, for every position of the chart widgets and
\* every answer of the provider
InitPage ==
    /\ page \in {"real_data", "terminal"} /\ FreshRun /\ FreshSession
    /\ provider = ProviderResponses
    /\ IF page = "terminal"
       THEN /\ view_mode \in {"multi", "single"}
            /\ chart_type \in ChartTypes
            /\ show_volume \in BOOLEAN
            /\ show_ma \in BOOLEAN
            /\ IF show_ma
               THEN ma_period_1 \in WidgetPeriods /\ ma_period_2 \in WidgetPeriods
               ELSE ma_period_1 = Unset /\ ma_period_2 = Unset
            /\ ticks \in PresetChoices
       ELSE /\ view_mode = "multi" /\ chart_type = CANDLESTICK
            /\ show_volume = TRUE /\ show_ma = FALSE
            /\ ma_period_1 = Unset /\ ma_period_2 = Unset
            /\ ticks = {}

\* a session of several runs: the first load of a page, the widgets at
\* their defaults (the first three presets are ticked)
FirstLoad(answers) ==
    /\ page \in {"real_data", "terminal"} /\ FreshRun /\ FreshSession
    /\ provider = answers
    /\ view_mode = "multi" /\ chart_type = CANDLESTICK
    /\ show_volume = TRUE /\ show_ma = FALSE
    /\ ma_period_1 = Unset /\ ma_period_2 = Unset
    /\ ticks = IF page = "terminal" THEN DefaultPresets ELSE {}

InitSession == FirstLoad(SessionResponses)

\* real-data page, lines 166-213: no setting of the sidebar reaches the
\* chart builder; the three tickers are fixed, in three columns
SidebarRealData ==
    /\ page = "real_data" /\ pc = "sidebar"
    /\ selected_presets' = TICKERS_CONFIG
    /\ idx' = 0
    /\ cols' = Len(TICKERS_CONFIG)
    /\ pc' = "fetch"
    /\ UNCHANGED <<page, view_mode, selected_single, response, data, numbers, fig, raised,
                   colors, called, rendered, stats, chart_type, show_volume,
                   show_ma, ma_period_1, ma_period_2, widgets, session, col_idx>>

\* two columns at most
columns_made_two(n) == IF n < 2 THEN n ELSE 2

\* line 508: st.columns(min(len(selected_presets), 3))
columns_made(n) == IF n < 3 THEN n ELSE 3

\* the answers a cached call may get: none is asked for on a hit
Answers(c, key) == IF cache_lookup(c, key) # {} THEN {NoResponse} ELSE provider

\* terminal, lines 310-453 and 508: the list of tickers rebuilt from the
\* checkboxes, the custom ticker appended in the run its button started,
\* the selectbox of the single view, the warning when the list is empty,
\* the columns of the multi view
SidebarTerminal ==
    /\ page = "terminal" /\ pc = "sidebar"
    /\ LET base == ticked(PRESET_TICKERS, ticks)
           add == button(trigger, "add") /\ custom_ticker # ""
           key == Key(custom_ticker, "1d", "5m")
       IN  \E resp \in (IF add THEN Answers(cache, key) ELSE {NoResponse}) :
           \E r \in {IF add
                      THEN cached_get_real_data(cache, key, resp, TERMINAL_COLUMNS)
                      ELSE NoCall} :
             LET found == add /\ ~is_none_or_empty(r.value)
                 list == IF found THEN Append(base, upper(custom_ticker))
                         ELSE base
                 messages ==
                    IF add
                    THEN (IF r.error THEN <<"fetch_error">> ELSE <<>>)
                         \o (IF found THEN <<"added">> ELSE <<"not_found">>)
                    ELSE IF button(trigger, "add") THEN <<"enter_ticker">>
                    ELSE <<>>
             IN  /\ selected_presets' = list
                 /\ cache' = IF add /\ r.stored # {}
                             THEN cache_store(cache, key, r.value, r.error)
                             ELSE cache
                 /\ contacted' = IF add THEN contacted \cup r.contacted
                                 ELSE contacted
                 /\ rendered' = rendered \o messages
                       \o (IF list = <<>> THEN <<"warning">> ELSE <<>>)
                 /\ pc' = IF list = <<>> THEN "footer" ELSE "fetch"
    /\ IF view_mode = "single" /\ selected_presets' # <<>>
       THEN selected_single' \in 0..(Len(selected_presets') - 1)
       ELSE UNCHANGED selected_single
    /\ cols' = IF view_mode = "multi" /\ selected_presets' # <<>>
               THEN columns_made(Len(selected_presets'))
               ELSE cols
    /\ idx' = IF view_mode = "single" /\ selected_presets' # <<>>
              THEN selected_single' ELSE idx
    /\ UNCHANGED <<page, response, data, numbers, fig, raised, colors, called, stats,
                   settings, widgets, trigger, slept, col_idx, provider>>

\* selected_presets[selected_single] and cols[col_idx]: the exception the
\* subscript raises ("" when it is in range)
subscript_error(view, p, single, i, n, made) ==
    IF p = "terminal" /\ view = "single"
    THEN (IF single = Unset THEN "NameError"
          ELSE IF single >= n THEN "IndexError" ELSE "")
    ELSE IF (IF p = "terminal" THEN i % 3 ELSE i) >= made
         THEN "IndexError" ELSE ""

\* data = get_real_data(config["symbol"], ...): lines 215-218 / 455-463 /
\* 510-517, through the cache.  The figure and numbers of the previous
\* ticker are dead from here on (they are reassigned before they are read)
\* and are dropped.  With keep false the entry the call stores is left out
\* of the state (see Fetch).
FetchStep(keep) ==
    /\ pc = "fetch"
    /\ LET err == subscript_error(view_mode, page, selected_single, idx,
                                  Len(selected_presets), cols)
           key == Key(selected_presets[idx + 1], DefaultPeriod(page),
                      interval_map(page, DefaultPeriod(page)))
       IN  IF err # ""
           THEN /\ raised' = err /\ pc' = "crashed"
                /\ UNCHANGED <<response, data, rendered, cache, contacted,
                               col_idx, fig, colors, called, numbers, stats>>
           ELSE /\ \E resp \in Answers(cache, key) :
                   \E r \in {cached_get_real_data(cache, key, resp,
                                 IF page = "terminal" THEN TERMINAL_COLUMNS
                                 ELSE REAL_DATA_COLUMNS)} :
                         /\ response' = resp
                         /\ data' = r.value
                         /\ cache' = IF keep /\ r.stored # {}
                                     THEN cache_store(cache, key, r.value, r.error)
                                     ELSE cache
                         /\ contacted' = contacted \cup r.contacted
                         /\ rendered' = IF r.error
                                        THEN Append(rendered, "fetch_error")
                                        ELSE rendered
                /\ col_idx' = IF page = "terminal" /\ view_mode = "single" THEN col_idx
                              ELSE IF page = "terminal" THEN idx % 3 ELSE idx
                /\ fig' = NoFigure /\ raised' = "" /\ colors' = <<>> /\ called' = ""
                /\ SetNumbers(NoSummary) /\ stats' = NoStats
                /\ pc' = "show"
    /\ UNCHANGED <<page, idx, sidebar, widgets, trigger, slept, cols, provider>>

\* a fetch of the one run from a cold cache: every ticker of a run has its
\* own key, so no entry stored in the run is read in it, and none is kept
Fetch == FetchStep(FALSE)

\* a fetch in a session of several runs
CachedFetch == FetchStep(TRUE)

\* the rest of the loop body: lines 220-236 / 465-505 / 519-550
Show ==
    /\ pc = "show"
    /\ IF data # None /\ len(data) # 0
       THEN \E s \in {summarize(data)} :
            \E r \in {IF page = "terminal"
                       THEN create_professional_chart(data, s.current_price,
                              s.change_pct, s.change_abs, chart_type, show_volume,
                              show_ma,
                              IF show_ma THEN ma_period_1 ELSE MA_DEFAULT_1,
                              IF show_ma THEN ma_period_2 ELSE MA_DEFAULT_2)
                       ELSE create_financial_chart(data, s.current_price,
                              s.change_pct, s.change_abs)} :
                /\ SetNumbers(s)
                /\ Return(r, IF page = "terminal" THEN "professional"
                             ELSE "financial")
                /\ rendered' = IF r.raised # "" THEN rendered
                               ELSE IF page = "terminal"
                               THEN rendered \o <<"chart", "stats">>
                               ELSE Append(rendered, "chart")
                /\ stats' = IF r.raised = "" /\ page = "terminal"
                             THEN statistics(r.df, view_mode = "single")
                             ELSE stats
       ELSE /\ rendered' = Append(rendered, "error")
            /\ UNCHANGED <<data, numbers, fig, raised, colors, called, stats>>
    /\ IF raised' # "" THEN pc' = "crashed" /\ UNCHANGED idx
       ELSE IF view_mode = "multi" /\ idx + 1 < Len(selected_presets)
       THEN pc' = "next" /\ UNCHANGED idx
       ELSE pc' = "footer" /\ UNCHANGED idx
    /\ UNCHANGED <<page, response, sidebar, widgets, session, layout>>

\* the head of the loop over the tickers (lines 215 / 510): the next ticker;
\* the table, the numbers and the figure of the ticker before are dead
\* (they are assigned before they are read again) and are dropped
NextTicker ==
    /\ pc = "next"
    /\ idx' = idx + 1
    /\ data' = None /\ response' = NoResponse
    /\ fig' = NoFigure /\ colors' = <<>> /\ called' = ""
    /\ SetNumbers(NoSummary) /\ stats' = NoStats
    /\ pc' = "fetch"
    /\ UNCHANGED <<page, raised, rendered, view_mode, selected_presets,
                   selected_single, settings, widgets, session, layout>>

\* lines 238-254 / 552-568: the timestamp, then the refresh button (True
\* in the run its click started: the cache is emptied and st.rerun() ends
\* the run), then the auto-refresh (time.sleep(refresh_rate) begins)
Footer ==
    /\ pc = "footer"
    /\ rendered' = Append(rendered, "timestamp")
    /\ IF button(trigger, "refresh")
       THEN cache' = {} /\ pc' = "rerun"
       ELSE /\ UNCHANGED cache
            /\ pc' = IF auto_refresh THEN "sleep" ELSE "done"
    /\ UNCHANGED <<page, idx, response, data, numbers, fig, raised, colors, called,
                   stats, sidebar, widgets, trigger, contacted, slept, layout,
                   provider>>

\* the next run begins: the page is cleared, the names of the script are
\* unbound; the widgets and the cache stay
StartRun(t) ==
    /\ pc' = "sidebar" /\ trigger' = t
    /\ selected_presets' = <<>> /\ selected_single' = Unset
    /\ idx' = 0 /\ rendered' = <<>> /\ data' = None /\ response' = NoResponse
    /\ stats' = NoStats
    /\ fig' = NoFigure /\ raised' = "" /\ colors' = <<>> /\ called' = ""
    /\ SetNumbers(NoSummary)
    /\ contacted' = {} /\ slept' = 0 /\ cols' = 0 /\ col_idx' = 0
    /\ UNCHANGED <<page, chart_type, show_volume, show_ma, ma_period_1,
                   ma_period_2, provider>>

\* st.rerun() after the cache was emptied (lines 248 / 562)
Rerun ==
    /\ pc = "rerun"
    /\ StartRun("rerun")
    /\ UNCHANGED <<view_mode, widgets, cache>>

\* TimeStep seconds go by while the script sleeps or has ended
Tick ==
    /\ \/ pc = "sleep" /\ slept < refresh_rate /\ slept' = slept + TimeStep
       \/ pc = "done" /\ cache # {} /\ UNCHANGED slept
    /\ cache' = cache_advance(cache, TimeStep)
    /\ UNCHANGED <<page, pc, idx, response, data, numbers, fig, raised, colors,
                   called, rendered, stats, sidebar, widgets, trigger, contacted,
                   layout, provider>>

\* st.rerun() without the sleep
WakeAtOnce ==
    /\ pc = "sleep"
    /\ StartRun("auto")
    /\ UNCHANGED <<view_mode, widgets, cache>>

\* time.sleep(refresh_rate) returns and st.rerun() starts the next run
\* (lines 251-254 / 565-568)
Wake ==
    /\ pc = "sleep" /\ slept >= refresh_rate
    /\ StartRun("auto")
    /\ UNCHANGED <<view_mode, widgets, cache>>

\* the user acts on a widget while the script is asleep or has ended; the
\* run in progress is dropped and the script runs again
Idle == pc \in {"sleep", "done"}

SetViewMode ==
    /\ page = "terminal" /\ Idle
    /\ view_mode' = IF view_mode = "multi" THEN "single" ELSE "multi"
    /\ StartRun("user")
    /\ UNCHANGED <<widgets, cache>>

TickPreset ==
    /\ page = "terminal" /\ Idle
    /\ \E p \in DefaultPresets :
         ticks' = IF p \in ticks THEN ticks \ {p} ELSE ticks \cup {p}
    /\ StartRun("user")
    /\ UNCHANGED <<view_mode, auto_refresh, refresh_rate, custom_ticker, cache>>

\* the checkbox, and with it the slider
SetAutoRefresh ==
    /\ Idle
    /\ \/ auto_refresh /\ auto_refresh' = FALSE /\ refresh_rate' = Unset
       \/ ~auto_refresh /\ auto_refresh' = TRUE /\ refresh_rate' \in RefreshRates
    /\ StartRun("user")
    /\ UNCHANGED <<view_mode, ticks, custom_ticker, cache>>

ClickAddTicker ==
    /\ page = "terminal" /\ Idle
    /\ custom_ticker' \in CustomTexts
    /\ StartRun("add")
    /\ UNCHANGED <<view_mode, ticks, auto_refresh, refresh_rate, cache>>

ClickRefresh ==
    /\ Idle
    /\ StartRun("refresh")
    /\ UNCHANGED <<view_mode, widgets, cache>>

Init == InitPage \/ InitChart

Next ==
    \/ SidebarRealData \/ SidebarTerminal \/ Fetch \/ Show \/ NextTicker \/ Footer
    \/ CallProfessional \/ CallFinancial \/ NewBar

Spec == Init /\ [][Next]_vars

\* a browser session on one page: the user switches the auto-refresh,
\* clicks the refresh button, adds a custom ticker; time goes by
SessionNext ==
    \/ SidebarRealData \/ SidebarTerminal \/ CachedFetch \/ Show \/ NextTicker
    \/ Footer
    \/ Rerun \/ Tick \/ Wake
    \/ SetAutoRefresh \/ ClickAddTicker \/ ClickRefresh

Session == InitSession /\ [][SessionNext]_vars

\* a session on the terminal in which the user changes the view mode and
\* the presets, adds custom tickers and clicks the refresh button
InitTickers == FirstLoad(TickersResponses) /\ page = "terminal"

TickersNext ==
    \/ SidebarTerminal \/ CachedFetch \/ Show \/ NextTicker \/ Footer \/ Rerun
    \/ SetViewMode \/ TickPreset \/ ClickAddTicker \/ ClickRefresh

Tickers == InitTickers /\ [][TickersNext]_vars

\* the script is executed: a run in progress takes its next statement, and
\* the clock goes on while it sleeps
Script ==
    \/ SidebarRealData \/ SidebarTerminal \/ CachedFetch \/ Show \/ NextTicker
    \/ Footer
    \/ Rerun \/ Wake

\* a session in which the user only switches the auto-refresh and clicks
\* the refresh button, the script being executed
RefreshNext ==
    \/ SidebarRealData \/ SidebarTerminal \/ CachedFetch \/ Show \/ NextTicker
    \/ Footer \/ Rerun \/ Tick \/ Wake \/ SetAutoRefresh \/ ClickRefresh

FairSession ==
    InitSession /\ [][RefreshNext]_vars /\ WF_vars(Script) /\ WF_vars(Tick)

(***************************************************************************)
(* Vocabulary of the properties.                                           *)
(***************************************************************************)
closes(df) == df.col["price"]

AllPresent(xs) == \A i \in 1..Len(xs) : IsNum(xs[i])

\* sum of the closes lo..hi of a series of whole-number closes
RECURSIVE CloseSum(_, _, _)
CloseSum(xs, lo, hi) ==
    IF lo > hi THEN 0 ELSE CloseSum(xs, lo, hi - 1) + xs[hi][2]

\* the traces of a figure that draw the moving average of period p
MATraces(f, p) ==
    IF f.kind = "chart"
    THEN {t \in 1..Len(f.traces) : f.traces[t].name = MA_name(p)}
    ELSE {}

\* the overlay value of period p at position i: absent (NaN) when the figure
\* has no overlay for p
Overlay(f, p, i) ==
    IF MATraces(f, p) = {} THEN NaN
    ELSE f.traces[CHOOSE t \in MATraces(f, p) : TRUE].y[i]

\* a call of create_professional_chart has just ended
ProfessionalDone == called = "professional" /\ pc # "args"
FinancialDone == called = "financial" /\ pc # "args"

\* C1: for a series S of present closes and each requested period p with
\* 1 <= p <= |S| (the other period positive too, of any size), the figure
\* built with show_ma on has an overlay for p of length |S| that is absent
\* below index p-1 and equal to the mean of the trailing p closes from p-1 on.
C1_OverlayIsTrailingMean ==
    (/\ page = "call" /\ ProfessionalDone /\ show_ma
     /\ data # None /\ AllPresent(closes(data))
     /\ ma_period_1 >= 1 /\ ma_period_2 >= 1)
    => \A p \in {ma_period_1, ma_period_2} :
         p <= len(data) =>
           /\ MATraces(fig, p) # {}
           /\ \A t \in MATraces(fig, p) :
                LET y == fig.traces[t].y
                IN  /\ Len(y) = len(data)
                    /\ \A i \in 1..Len(y) :
                         IF i < p THEN y[i] = NaN
                         ELSE /\ IsNum(y[i])
                              /\ y[i][2] * p
                                   = y[i][3] * CloseSum(closes(data), i - p + 1, i)

\* the table of a page run that got a chart
PageCharted == page # "call" /\ called # "" /\ raised = ""

\* C2: when a page has drawn the chart of a non-empty series whose first
\* close is a number other than zero, current is the last close, reference
\* the first close, change_abs = current - reference, change_pct =
\* change_abs / reference * 100, and the chart's price label carries exactly
\* these values.
C2_SummaryNumbers ==
    (/\ PageCharted
     /\ IsNum(closes(data)[1]) /\ closes(data)[1][2] # 0)
    => LET last == closes(data)[len(data)]
           first == closes(data)[1]
       IN  /\ current_price = last
           /\ prev_price = first
           /\ IF IsNum(last)
              THEN /\ IsNum(change_abs) /\ IsNum(change_pct)
                   /\ change_abs[2] = (last[2] - first[2]) * change_abs[3]
                   /\ change_pct[2] * first[2]
                        = 100 * (last[2] - first[2]) * change_pct[3]
              ELSE change_abs = NaN /\ change_pct = NaN
           /\ fig.kind = "chart"
           /\ fig.label.current_price = current_price
           /\ fig.label.change_pct = change_pct
           /\ fig.label.change_abs = change_abs

\* C2 witness: the real-data page has charted closes [50, 55]: +5, +10 %
C2_Witness ==
    /\ page = "real_data" /\ PageCharted
    /\ closes(data) = <<F(50), F(55)>>
    /\ SameValue(change_abs, F(5)) /\ SameValue(change_pct, F(10))
    /\ SameValue(fig.label.change_pct, F(10))

\* C3: when the first close of a charted series is 0, change_abs is still
\* the number current - reference and change_pct is a failure result: no
\* infinite or not-a-number change_pct reaches the chart builder.
C3_ZeroReferenceIsNotPropagated ==
    (/\ PageCharted
     /\ closes(data)[1] = F(0) /\ IsNum(closes(data)[len(data)]))
    => /\ SameValue(change_abs, closes(data)[len(data)])
       /\ IsNum(change_pct)
       /\ IsNum(fig.label.change_pct)

\* the provider's last answer was a failure or an empty result
Unavailable(resp) ==
    \/ resp = ProviderError
    \/ resp.kind = "df" /\ Len(resp.col["Close"]) = 0

\* the elements one ticker leaves on the page
TickerElements == {i \in 1..Len(rendered) : rendered[i] \in {"chart", "error"}}

\* the number of tickers the run displays
Displayed ==
    IF view_mode = "single" /\ selected_presets # <<>> THEN 1
    ELSE Len(selected_presets)

\* C4: an exception of the provider and an empty result both make
\* get_real_data return None; the page then computes no numbers and calls no
\* builder for that ticker and shows the error placeholder; a builder called
\* with None or an empty table returns the placeholder figure without
\* raising; the run never stops early, and when it is done every displayed
\* ticker has left a chart or an error and the timestamp is printed last.
C4_UnavailableIsData ==
    /\ (page # "call" /\ pc = "show" /\ Unavailable(response)) => data = None
    /\ (page # "call" /\ pc \in {"next", "footer", "done"} /\ Unavailable(response))
         => /\ data = None /\ called = "" /\ fig = NoFigure
            /\ <<current_price, prev_price, change_abs, change_pct>>
                 = <<F(0), F(0), F(0), F(0)>>
            /\ rendered[Len(rendered) - (IF pc = "done" THEN 1 ELSE 0)] = "error"
    /\ (page = "call" /\ called # "" /\ pc # "args" /\ is_none_or_empty(data))
         => raised = "" /\ fig.kind = "placeholder"
    /\ pc # "crashed"
    /\ (page # "call" /\ pc = "done")
         => /\ rendered[Len(rendered)] = "timestamp"
            /\ Cardinality(TickerElements) = Displayed

\* C4 witness: a finished run of the real-data page whose first ticker met a
\* provider exception, the second an empty result, the third a chart
C4_Witness ==
    /\ page = "real_data" /\ pc = "done"
    /\ rendered = <<"fetch_error", "error", "error", "chart", "timestamp">>

\* the figure has volume bars, whose colours are `colors`
HasVolumeBars ==
    /\ ProfessionalDone /\ raised = "" /\ fig.kind = "chart"
    /\ \E t \in 1..Len(fig.traces) : fig.traces[t].type = "Bar"

\* the line branch of create_financial_chart ran
LineBranch ==
    /\ FinancialDone /\ ~is_none_or_empty(data)
    /\ ~({"Open", "High", "Low"} \subseteq columns(data))

\* close >= other, both present, on whole numbers
AtLeast(a, b) == IsNum(a) /\ IsNum(b) /\ a[2] >= b[2]

C6_OneTagPerBar ==
    /\ (HasVolumeBars /\ AllPresent(closes(data))) => Len(colors) = len(data)
    /\ (LineBranch /\ AllPresent(closes(data))) => Len(colors) = len(data)

SeriesLen(df) == IF df = None THEN 0 ELSE len(df)

\* C7: when the series is shorter than a requested period, building the
\* chart with show_ma on ends without an exception and no overlay value of
\* that period is present, in the figure or in the table.
C7_ShortSeriesAllAbsent ==
    (ProfessionalDone /\ show_ma)
    => \A p \in {ma_period_1, ma_period_2} :
         SeriesLen(data) < p =>
           /\ raised = ""
           /\ \A t \in MATraces(fig, p) :
                \A i \in 1..Len(fig.traces[t].y) : fig.traces[t].y[i] = NaN
           /\ (data # None /\ MA_name(p) \in columns(data))
                => \A i \in 1..len(data) : data.col[MA_name(p)][i] = NaN

\* C7 witness: two bars, periods 3 and 1, the chart was built
C7_Witness ==
    /\ page = "call" /\ ProfessionalDone /\ show_ma
    /\ len(data) = 2 /\ ma_period_1 = 3 /\ ma_period_2 = 1
    /\ raised = "" /\ fig.kind = "chart"

\* C8: appending bars never changes the overlay value (present or absent) of
\* an earlier index: the chart of the series with one more bar has the same
\* overlay values at the old indices as the chart of the series before.
C8_NoLookAhead ==
    [][(/\ page = "call" /\ pc = "args" /\ pc' = "returned"
        /\ called = "professional" /\ called' = "professional"
        /\ fig.kind = "chart" /\ show_ma
        /\ AllPresent(closes(data))
        /\ ma_period_1 >= 1 /\ ma_period_2 >= 1)
       => \A p \in {ma_period_1, ma_period_2} :
            \A i \in 1..(len(data) - 1) :
               SameValue(Overlay(fig', p, i), Overlay(fig, p, i))]_vars

\* C9: create_professional_chart leaves its input table as it was: the same
\* columns with the same values after the call as before.
C9_InputUnchanged ==
    [][(/\ pc \in {"args", "show"} /\ called' = "professional" /\ raised' = ""
        /\ data # None /\ AllPresent(closes(data))
        /\ ma_period_1 >= 1 /\ ma_period_2 >= 1)
       => data' = data]_vars

\* C10: a period <= 0 handed to create_professional_chart (here with show_ma
\* on and a non-empty series of present closes) ends the call with an error
\* before any overlay is computed.
C10_NonPositivePeriodRejected ==
    (/\ page = "call" /\ ProfessionalDone /\ show_ma
     /\ ~is_none_or_empty(data) /\ AllPresent(closes(data))
     /\ (ma_period_1 <= 0 \/ ma_period_2 <= 0))
    => /\ raised # ""
       /\ columns(data) \subseteq TERMINAL_COLUMNS


\* the price traces of a figure (the traces named after the ticker)
PriceTraces(f) ==
    IF f.kind = "chart"
    THEN {t \in 1..Len(f.traces) : f.traces[t].name = "ticker"}
    ELSE {}

\* the trace type the stated rule gives for a selected kind and a table
ExpectedTrace(kind, df) ==
    IF {"Open", "High", "Low", "price"} \subseteq columns(df)
    THEN (IF kind = CANDLESTICK THEN "Candlestick"
          ELSE IF kind = BAR THEN "Ohlc" ELSE "Scatter")
    ELSE "Scatter"

\* C11: every chart a builder returns has exactly one price trace; in the
\* terminal it is a candlestick iff the selected kind is candlestick and
\* Open, High, Low and price are all present, an OHLC bar iff the kind is
\* bar and all four are present, and otherwise a line of the closes; the
\* real-data page, which has no selector, draws the candlestick whenever the
\* four are present and otherwise the line of the closes.
C11_OnePriceTrace ==
    ((ProfessionalDone \/ FinancialDone) /\ raised = "" /\ fig.kind = "chart")
    => /\ Cardinality(PriceTraces(fig)) = 1
       /\ \A t \in PriceTraces(fig) :
            /\ fig.traces[t].type =
                 ExpectedTrace(IF called = "professional" THEN chart_type
                               ELSE CANDLESTICK, data)
            /\ fig.traces[t].y = closes(data)
       /\ \A t \in 1..Len(fig.traces) :
            fig.traces[t].type \in {"Candlestick", "Ohlc"} => t \in PriceTraces(fig)

\* C11 witness: the bar kind on a table with all four columns gave an OHLC
\* trace, with volume bars beside it
C11_Witness ==
    /\ ProfessionalDone /\ chart_type = BAR /\ fig.kind = "chart"
    /\ len(data) = 2 /\ Len(fig.traces) = 2
    /\ fig.traces[1].type = "Ohlc" /\ fig.traces[1].name = "ticker"

\* C18: in a chart of create_professional_chart the two-row layout exists
\* iff a volume bar trace is in its second row: no empty volume row, no
\* volume bars without a volume row.
C18_VolumeRowIffVolumeBars ==
    (ProfessionalDone /\ raised = "" /\ fig.kind = "chart")
    => (fig.rows = 2
          <=> \E t \in 1..Len(fig.traces) :
                 fig.traces[t].type = "Bar" /\ fig.traces[t].row = 2)

\* the terminal has printed the statistics of the ticker in `data`
StatsShown == page = "terminal" /\ called = "professional" /\ stats.high # Hidden
Digits == IF view_mode = "single" THEN 2 ELSE 1

\* C12: the volume metric of the single view is the sum of the volumes of
\* all bars (printed in billions), and is N/A when no bar of the series
\* carries a volume, also when the Volume column exists and is empty for
\* every bar; it is not 0 in that case.
C12_VolumeTotalOrAbsent ==
    (StatsShown /\ view_mode = "single")
    => stats.volume = IF present(data.col["Volume"]) = {} THEN NA
                      ELSE format(billions(series_sum(data.col["Volume"])), 2)

\* C13: for a charted series whose closes are all present, the printed high
\* is the maximum of the highs, or the maximum close when no bar has a high;
\* the printed low is the minimum of the lows, or the minimum close when no
\* bar has a low; both are numbers and low <= mean of closes <= high.
C13_HighLowFallBackToClose ==
    (StatsShown /\ AllPresent(closes(data)))
    => LET highs == IF present(data.col["High"]) = {} THEN closes(data)
                    ELSE data.col["High"]
           lows == IF present(data.col["Low"]) = {} THEN closes(data)
                   ELSE data.col["Low"]
       IN  /\ stats.high = format(series_max(highs), Digits)
           /\ stats.low = format(series_min(lows), Digits)
           /\ IsNum(stats.high) /\ IsNum(stats.low)
           /\ fge(stats.avg, stats.low) /\ fge(stats.high, stats.avg)

\* the run has printed its timestamp after an element for every ticker it
\* displays
RunComplete ==
    /\ rendered # <<>> /\ rendered[Len(rendered)] = "timestamp"
    /\ Cardinality(TickerElements) = Displayed
    /\ \A i \in TickerElements : i < Len(rendered)

\* the positions of a run follow the script: sidebar, then for each ticker
\* the fetch and the chart, then the footer
RunOrder ==
    /\ pc = "sidebar" => pc' \in {"fetch", "footer"}
    /\ pc = "fetch" => pc' = "show"
    /\ pc = "show" => pc' \in {"next", "footer"}
    /\ pc = "next" => pc' = "fetch"
    /\ pc = "footer" => pc' \in {"sleep", "rerun", "done"} /\ RunComplete'

\* a new run is started by the script (not by an action of the user)
ScriptReruns == pc # "sidebar" /\ pc' = "sidebar" /\ trigger' \in {"rerun", "auto"}

\* C14 (as stated): after the timestamp every run waits refresh_rate seconds
\* and starts a new run if auto-refresh is enabled, and ends without a new
\* run if it is not.
C14_WaitIffAutoRefresh ==
    [][/\ pc = "footer" => pc' = (IF auto_refresh THEN "sleep" ELSE "done")
       /\ ScriptReruns => auto_refresh /\ pc = "sleep" /\ slept = refresh_rate]_vars

\* C14 (amended): every run goes through sidebar, fetch and chart of each
\* ticker, and timestamp, in this order; a run not started by the refresh
\* button then waits iff auto-refresh is enabled, the wait lasts
\* refresh_rate seconds (30..300) and ends in a new run; a run started by
\* the refresh button starts a new run right after its timestamp, without
\* waiting; no other run is started by the script.  Every run comes to its
\* end, and a sleeping run is followed by a new run: with auto-refresh
\* enabled the runs repeat for ever.
C14_RunOrderAndAutoRefresh ==
    /\ [][/\ RunOrder
          /\ (pc = "footer" /\ trigger # "refresh")
                => pc' = (IF auto_refresh THEN "sleep" ELSE "done")
          /\ (pc = "footer" /\ trigger = "refresh") => pc' = "rerun"
          /\ ScriptReruns =>
                \/ pc = "rerun"
                \/ /\ pc = "sleep" /\ auto_refresh /\ RunComplete
                   /\ slept = refresh_rate
                   /\ refresh_rate \in REFRESH_MIN..REFRESH_MAX]_vars
    /\ (pc = "sidebar") ~> (pc \in {"sleep", "rerun", "done"})
    /\ (pc = "sleep") ~> (pc = "sidebar")

\* C14 witness: a run of the real-data page that auto-refresh started has
\* rendered its three tickers and the timestamp and has slept refresh_rate
\* seconds
C14_Witness ==
    /\ page = "real_data" /\ pc = "sleep" /\ auto_refresh /\ trigger = "auto"
    /\ slept = refresh_rate /\ refresh_rate = REFRESH_MAX
    /\ RunComplete /\ Len(rendered) >= 4

\* the symbols a custom ticker is displayed under
CustomSymbols == {upper(t) : t \in CustomTexts \ {""}}

Listed == {selected_presets[i] : i \in 1..Len(selected_presets)}

\* C15: the list of tickers is rebuilt from the preset checkboxes in every
\* run of the terminal; a custom ticker is in it only in the run that a
\* click on the add button started (and then it is the last element, after
\* the ticked presets), so a run started later in any other way does not
\* display it.
C15_CustomTickerOnlyInItsRun ==
    (page = "terminal" /\ pc # "sidebar")
    => /\ (Listed \cap CustomSymbols # {}) => trigger = "add"
       /\ IF trigger = "add" /\ custom_ticker # ""
             /\ \E i \in 1..Len(rendered) : rendered[i] = "added"
          THEN selected_presets
                 = Append(ticked(PRESET_TICKERS, ticks), upper(custom_ticker))
          ELSE selected_presets = ticked(PRESET_TICKERS, ticks)

\* C15 witness: the custom ticker was displayed in an earlier run (its table
\* is still cached), and the run that auto-refresh started afterwards has
\* printed its timestamp with the presets only
C15_Witness ==
    /\ page = "terminal" /\ pc = "sleep" /\ trigger = "auto"
    /\ custom_ticker = "msft"
    /\ \E e \in cache : e.key[1] = "MSFT" /\ e.value # None
    /\ selected_presets = ticked(PRESET_TICKERS, ticks)
    /\ RunComplete

\* C16: in every run of the terminal, whatever the view mode, the ticked
\* presets and the custom tickers added: when the single view reads
\* selected_presets[selected_single], selected_single was assigned in this
\* run (the names of a run start unbound) and is an index of the list; with
\* an empty list the run shows the warning and reads no index; in the multi
\* view min(len, 3) columns are made and the column idx % 3 of every ticker
\* is one of them.  No run ends in an exception.
C16_IndicesInRange ==
    page = "terminal" =>
       /\ pc # "crashed" /\ raised = ""
       /\ (pc \in {"fetch", "show", "next"}) =>
             /\ selected_presets # <<>>
             /\ idx \in 0..(Len(selected_presets) - 1)
             /\ subscript_error(view_mode, page, selected_single, idx,
                                Len(selected_presets), cols) = ""
             /\ view_mode = "single" =>
                   selected_single # Unset /\ idx = selected_single
             /\ view_mode = "multi" =>
                   /\ cols = columns_made(Len(selected_presets))
                   /\ idx % 3 < cols
                   /\ pc # "fetch" => col_idx = idx % 3
       /\ (pc # "sidebar" /\ selected_presets = <<>>) =>
             /\ pc \in {"footer", "rerun", "sleep", "done"}
             /\ selected_single = Unset /\ idx = 0
             /\ \E i \in 1..Len(rendered) : rendered[i] = "warning"
             /\ TickerElements = {}

\* C16 witness: the multi view shows the fourth ticker of a list of three
\* presets and a custom ticker in the first of its three columns
C16_Witness ==
    /\ page = "terminal" /\ view_mode = "multi" /\ pc = "show"
    /\ Len(selected_presets) = 4 /\ selected_presets[4] = "MSFT"
    /\ idx = 3 /\ col_idx = 0 /\ cols = 3

\* the arguments of the get_real_data call for the ticker at idx
FetchKey ==
    Key(selected_presets[idx + 1], DefaultPeriod(page),
        interval_map(page, DefaultPeriod(page)))

\* the keys of the tickers a run displays
DisplayedKeys ==
    {Key(selected_presets[i + 1], DefaultPeriod(page),
         interval_map(page, DefaultPeriod(page))) :
       i \in IF page = "terminal" /\ view_mode = "single"
             THEN {idx} ELSE 0..(Len(selected_presets) - 1)}

\* C17: every entry of the cache is younger than 300 seconds; a call of
\* get_real_data whose arguments have an entry returns the entry's result
\* (a table, or the None of a provider failure or of an empty answer) with
\* the same error message and without asking the provider, in whatever way
\* the run was started; a call without an entry asks the provider and
\* stores the result.  The run started by the refresh button empties the
\* cache after its timestamp, and in the run that follows every displayed
\* ticker is fetched from the provider.
C17_CachedResultsReused ==
    /\ [](\A e \in cache : e.age < TTL)
    /\ []((page # "call" /\ trigger = "rerun" /\ pc \in {"footer", "sleep", "done"})
            => DisplayedKeys \subseteq contacted)
    /\ [][/\ (pc = "fetch" /\ pc' = "show") =>
               LET hits == {e \in cache : e.key = FetchKey}
               IN  IF hits # {}
                   THEN /\ Cardinality(hits) = 1
                        /\ \A e \in hits :
                             /\ data' = e.value
                             /\ rendered' = IF e.error
                                            THEN Append(rendered, "fetch_error")
                                            ELSE rendered
                        /\ contacted' = contacted /\ cache' = cache
                        /\ response' = NoResponse
                   ELSE /\ contacted' = contacted \cup {FetchKey}
                        /\ response' \in provider
                        /\ data' = get_real_data(response',
                                     IF page = "terminal" THEN TERMINAL_COLUMNS
                                     ELSE REAL_DATA_COLUMNS)
                        /\ \E e \in cache' :
                             e.key = FetchKey /\ e.age = 0 /\ e.value = data'
          /\ (pc = "footer" /\ trigger = "refresh") => cache' = {} /\ pc' = "rerun"
          /\ pc = "rerun" => cache' = {} /\ trigger' = "rerun" /\ pc' = "sidebar"]_vars

\* C17 witness: in a run that auto-refresh started, the first ticker of the
\* real-data page got the None that was cached 150 seconds before, without
\* the provider being asked
C17_Witness ==
    /\ page = "real_data" /\ pc = "show" /\ idx = 0 /\ trigger = "auto"
    /\ data = None /\ contacted = {}
    /\ \E e \in cache : e.key = FetchKey /\ e.value = None /\ e.age = TimeStep

====
